---------------------------- MODULE Spec2Model ----------------------------
(***************************************************************************)
(* A model of azul-layout's lib.rs: the style adapter                      *)
(* (GetStyle for DisplayRectangle, with its helper translate_dimension)    *)
(* and the orchestration facade SolvedUi::new.                             *)
(*                                                                         *)
(* Two state machines live in this module.                                 *)
(*   SpecStyle : a DisplayRectangle whose public properties a caller sets, *)
(*               and on which get_style is called.                         *)
(*   Spec      : one call of SolvedUi::new, stepped through its three      *)
(*               phases (the styles transform, algo::compute, the offset   *)
(*               loop).                                                    *)
(*                                                                         *)
(* f32 values are modelled as exact rationals n/d (d > 0, lowest terms)    *)
(* extended with +infinity and NaN; rounding to 24 bits of mantissa is not *)
(* modelled.                                                               *)
(***************************************************************************)
EXTENDS Integers, Naturals, Sequences, FiniteSets, TLC

VARIABLES
    rect,            \* SpecStyle: the DisplayRectangle (layout and style properties)
    style,           \* SpecStyle: what get_style returned for rect, or NoStyle
    pc,              \* Spec: position inside SolvedUi::new
    bounds,          \* Spec: the LayoutRect argument
    node_hierarchy,  \* Spec: parent of every node (node 0 is the root)
    display_rects,   \* Spec: the NodeDataContainer<T> argument
    rect_contents,   \* Spec: the BTreeMap<NodeId, RectContent<U>> argument
    styles,          \* Spec: the local `styles`
    computed,        \* Spec: what algo::compute returned (kept for reference)
    solved_rects,    \* Spec: the local `solved_rects`
    idx              \* Spec: position of the iterator of the offset loop

vars == <<rect, style, pc, bounds, node_hierarchy, display_rects,
          rect_contents, styles, computed, solved_rects, idx>>

styleVars == <<rect, style>>
uiVars == <<pc, bounds, node_hierarchy, display_rects, rect_contents,
            styles, computed, solved_rects, idx>>

----------------------------------------------------------------------------
(* Bounds of the model *)

\* how many properties of one DisplayRectangle are set at the same time
MaxSet == 1
\* how many nodes a hierarchy has at most
MaxNodes == 2

----------------------------------------------------------------------------
(* f32 *)

Abs(i) == IF i < 0 THEN -i ELSE i

RECURSIVE GCD(_, _)
GCD(a, b) == IF b = 0 THEN a ELSE GCD(b, a % b)

\* the finite value n/d, d # 0, in lowest terms with a positive denominator
F(n, d) ==
    LET g == GCD(Abs(n), Abs(d))
        s == IF d < 0 THEN -1 ELSE 1
    IN  [k |-> "fin", n |-> s * (n \div g), d |-> s * (d \div g)]

PosInf == [k |-> "inf", n |-> 1, d |-> 0]
NaN == [k |-> "nan", n |-> 0, d |-> 0]
Zero == F(0, 1)

IsFinite(a) == a.k = "fin"

\* a + b, a * b, a / b on finite values (the only ones arithmetic is applied to;
\* anything else yields NaN)
FAdd(a, b) ==
    IF IsFinite(a) /\ IsFinite(b) THEN F(a.n * b.d + b.n * a.d, a.d * b.d) ELSE NaN

FMul(a, b) ==
    IF IsFinite(a) /\ IsFinite(b) THEN F(a.n * b.n, a.d * b.d) ELSE NaN

FDiv(a, b) ==
    IF ~(IsFinite(a) /\ IsFinite(b)) THEN NaN
    ELSE IF b.n # 0 THEN F(a.n * b.d, a.d * b.n)
    ELSE IF a.n = 0 THEN NaN
    ELSE PosInf

\* a <= b; false as soon as one side is NaN, as for f32
FLe(a, b) ==
    CASE a.k = "nan" \/ b.k = "nan" -> FALSE
      [] b.k = "inf" -> TRUE
      [] a.k = "inf" -> FALSE
      [] OTHER -> a.n * b.d <= b.n * a.d

FMax(a, b) == IF FLe(a, b) THEN b ELSE a
FMin(a, b) == IF FLe(a, b) THEN a ELSE b

\* `x as f32` of a usize
UsizeAsF32(x) == F(x, 1)

----------------------------------------------------------------------------
(* Number, Dimension, Option, CssPropertyValue *)

Undefined == [tag |-> "Undefined"]
Defined(v) == [tag |-> "Defined", value |-> v]

DimUndefined == [tag |-> "Undefined"]
DimAuto == [tag |-> "Auto"]
Pixels(v) == [tag |-> "Pixels", value |-> v]
Percent(v) == [tag |-> "Percent", value |-> v]

NoneOpt == [tag |-> "None"]
Some(v) == [tag |-> "Some", value |-> v]

\* Option<CssPropertyValue<T>>: Absent is Option::None
Absent == [tag |-> "Absent"]
CssAuto == [tag |-> "Auto"]
CssNone == [tag |-> "None"]
CssInitial == [tag |-> "Initial"]
CssInherit == [tag |-> "Inherit"]
Exact(v) == [tag |-> "Exact", value |-> v]

NonExact == {CssAuto, CssNone, CssInitial, CssInherit}

\* a PixelValue; number stands for what pixel_value.number.get() returns
PixelValue(m, v) == [metric |-> m, number |-> v]

\* azul_css::PT_TO_PX and azul_css::EM_HEIGHT
PT_TO_PX == F(96, 72)
EM_HEIGHT == F(16, 1)

\* azul_core::ui_solver::DEFAULT_FONT_SIZE.0, and the Default of the flex factors
DEFAULT_FONT_SIZE == [metric |-> "Default", number |-> Zero]
DefaultFlexFactor == [k |-> "default", n |-> 0, d |-> 1]

\* Option<CssPropertyValue<T>>::unwrap_or_default().get_property_or_default():
\* the exact value when there is one, no value in every other state
get_property_or_default(input) ==
    IF input.tag = "Exact" THEN Some(input.value) ELSE NoneOpt

\* CssPropertyValue<T>::get_property_owned behind Option::and_then
get_property_owned(input) ==
    IF input.tag = "Exact" THEN Some(input.value) ELSE NoneOpt


----------------------------------------------------------------------------
(* The style adapter: GetStyle for DisplayRectangle *)

\* translate_dimension with points passed through unscaled
translate_dimension_pt_unscaled(input) ==
    CASE input.tag = "Absent" -> DimUndefined
      [] input.tag = "Auto" -> DimAuto
      [] input.tag = "None" -> Pixels(Zero)
      [] input.tag = "Initial" -> DimUndefined
      [] input.tag = "Inherit" -> DimUndefined
      [] input.tag = "Exact" ->
            CASE input.value.metric = "Px" -> Pixels(input.value.number)
              [] input.value.metric = "Percent" -> Percent(input.value.number)
              [] input.value.metric = "Pt" -> Pixels(input.value.number)
              [] input.value.metric = "Em" -> Pixels(FMul(input.value.number, EM_HEIGHT))

\* translate_dimension with the CSS value none treated like initial
translate_dimension_none_undefined(input) ==
    CASE input.tag = "Absent" -> DimUndefined
      [] input.tag = "Auto" -> DimAuto
      [] input.tag = "None" -> DimUndefined
      [] input.tag = "Initial" -> DimUndefined
      [] input.tag = "Inherit" -> DimUndefined
      [] input.tag = "Exact" ->
            CASE input.value.metric = "Px" -> Pixels(input.value.number)
              [] input.value.metric = "Percent" -> Percent(input.value.number)
              [] input.value.metric = "Pt" -> Pixels(FMul(input.value.number, PT_TO_PX))
              [] input.value.metric = "Em" -> Pixels(FMul(input.value.number, EM_HEIGHT))

translate_dimension(input) ==
    CASE input.tag = "Absent" -> DimUndefined
      [] input.tag = "Auto" -> DimAuto
      [] input.tag = "None" -> Pixels(Zero)
      [] input.tag = "Initial" -> DimUndefined
      [] input.tag = "Inherit" -> DimUndefined
      [] input.tag = "Exact" ->
            CASE input.value.metric = "Px" -> Pixels(input.value.number)
              [] input.value.metric = "Percent" -> Percent(input.value.number)
              [] input.value.metric = "Pt" -> Pixels(FMul(input.value.number, PT_TO_PX))
              [] input.value.metric = "Em" -> Pixels(FMul(input.value.number, EM_HEIGHT))

\* display with the CSS value none falling back to the flex default
display_none_is_flex(rect_layout) ==
    LET d == rect_layout.display IN
    CASE d.tag = "Absent" -> "Flex"
      [] d.tag = "Auto" -> "Flex"
      [] d.tag = "None" -> "Flex"
      [] d.tag = "Initial" -> "Flex"
      [] d.tag = "Inherit" -> "Flex"
      [] d.tag = "Exact" /\ d.value = "Flex" -> "Flex"
      [] d.tag = "Exact" /\ d.value = "Inline" -> "Inline"

display(rect_layout) ==
    LET d == rect_layout.display IN
    CASE d.tag = "Absent" -> "Flex"
      [] d.tag = "Auto" -> "Flex"
      [] d.tag = "None" -> "None"
      [] d.tag = "Initial" -> "Flex"
      [] d.tag = "Inherit" -> "Flex"
      [] d.tag = "Exact" /\ d.value = "Flex" -> "Flex"
      [] d.tag = "Exact" /\ d.value = "Inline" -> "Inline"

box_sizing(rect_layout) ==
    LET b == get_property_or_default(rect_layout.box_sizing) IN
    CASE b = NoneOpt -> "ContentBox"
      [] b = Some("ContentBox") -> "ContentBox"
      [] b = Some("BorderBox") -> "BorderBox"

\* position_type with static boxes taken out of the flow
position_type_static_absolute(rect_layout) ==
    LET p == get_property_or_default(rect_layout.position) IN
    CASE p = Some("Static") -> "Absolute"
      [] p = Some("Relative") -> "Relative"
      [] p = Some("Absolute") -> "Absolute"
      [] p = NoneOpt -> "Relative"

position_type(rect_layout) ==
    LET p == get_property_or_default(rect_layout.position) IN
    CASE p = Some("Static") -> "Relative"
      [] p = Some("Relative") -> "Relative"
      [] p = Some("Absolute") -> "Absolute"
      [] p = NoneOpt -> "Relative"

\* direction following a reversed flex direction
direction_follows_flex_direction(rect_layout) ==
    IF rect_layout.direction \in {Exact("RowReverse"), Exact("ColumnReverse")}
    THEN "RTL" ELSE "LTR"

direction(rect_layout) == "LTR"

flex_direction(rect_layout) ==
    LET d == get_property_or_default(rect_layout.direction) IN
    CASE d = Some("Row") -> "Row"
      [] d = Some("RowReverse") -> "RowReverse"
      [] d = Some("Column") -> "Column"
      [] d = Some("ColumnReverse") -> "ColumnReverse"
      [] d = NoneOpt -> "Row"

flex_wrap(rect_layout) ==
    LET w == get_property_or_default(rect_layout.wrap) IN
    CASE w = Some("Wrap") -> "Wrap"
      [] w = Some("NoWrap") -> "NoWrap"
      [] w = NoneOpt -> "Wrap"

overflow(rect_layout) ==
    LET o == get_property_or_default(rect_layout.overflow_x) IN
    CASE o = Some("Scroll") -> "Scroll"
      [] o = Some("Auto") -> "Scroll"
      [] o = Some("Hidden") -> "Hidden"
      [] o = Some("Visible") -> "Visible"
      [] o = NoneOpt -> "Scroll"

align_items(rect_layout) ==
    LET a == get_property_or_default(rect_layout.align_items) IN
    CASE a = Some("Stretch") -> "Stretch"
      [] a = Some("Center") -> "Center"
      [] a = Some("Start") -> "FlexStart"
      [] a = Some("End") -> "FlexEnd"
      [] a = NoneOpt -> "FlexStart"

align_content(rect_layout) ==
    LET a == get_property_or_default(rect_layout.align_content) IN
    CASE a = Some("Stretch") -> "Stretch"
      [] a = Some("Center") -> "Center"
      [] a = Some("Start") -> "FlexStart"
      [] a = Some("End") -> "FlexEnd"
      [] a = Some("SpaceBetween") -> "SpaceBetween"
      [] a = Some("SpaceAround") -> "SpaceAround"
      [] a = NoneOpt -> "Stretch"

justify_content(rect_layout) ==
    LET j == get_property_or_default(rect_layout.justify_content) IN
    CASE j = Some("Center") -> "Center"
      [] j = Some("Start") -> "FlexStart"
      [] j = Some("End") -> "FlexEnd"
      [] j = Some("SpaceBetween") -> "SpaceBetween"
      [] j = Some("SpaceAround") -> "SpaceAround"
      [] j = Some("SpaceEvenly") -> "SpaceEvenly"
      [] j = NoneOpt -> "FlexStart"

\* Option<f32>::unwrap_or_default() of a flex factor
flex_factor(input) ==
    LET f == get_property_or_default(input) IN
    IF f = NoneOpt THEN DefaultFlexFactor ELSE f.value

font_size_px(rect_style) ==
    LET fs == get_property_owned(rect_style.font_size) IN
    IF fs = NoneOpt THEN DEFAULT_FONT_SIZE ELSE fs.value

get_style(self) ==
    LET rect_layout == self.layout
        rect_style == self.style
    IN  [ display |-> display(rect_layout),
          box_sizing |-> box_sizing(rect_layout),
          position_type |-> position_type(rect_layout),
          direction |-> direction(rect_layout),
          flex_direction |-> flex_direction(rect_layout),
          flex_wrap |-> flex_wrap(rect_layout),
          overflow |-> overflow(rect_layout),
          align_items |-> align_items(rect_layout),
          align_content |-> align_content(rect_layout),
          justify_content |-> justify_content(rect_layout),
          position |-> [ left |-> translate_dimension(rect_layout.left),
                         right |-> translate_dimension(rect_layout.right),
                         top |-> translate_dimension(rect_layout.top),
                         bottom |-> translate_dimension(rect_layout.bottom) ],
          margin |-> [ left |-> translate_dimension(rect_layout.margin_left),
                       right |-> translate_dimension(rect_layout.margin_right),
                       top |-> translate_dimension(rect_layout.margin_top),
                       bottom |-> translate_dimension(rect_layout.margin_bottom) ],
          padding |-> [ left |-> translate_dimension(rect_layout.padding_left),
                        right |-> translate_dimension(rect_layout.padding_right),
                        top |-> translate_dimension(rect_layout.padding_top),
                        bottom |-> translate_dimension(rect_layout.padding_bottom) ],
          border |-> [ left |-> translate_dimension(rect_layout.border_left_width),
                       right |-> translate_dimension(rect_layout.border_right_width),
                       top |-> translate_dimension(rect_layout.border_top_width),
                       bottom |-> translate_dimension(rect_layout.border_bottom_width) ],
          flex_grow |-> flex_factor(rect_layout.flex_grow),
          flex_shrink |-> flex_factor(rect_layout.flex_shrink),
          size |-> [ width |-> translate_dimension(rect_layout.width),
                     height |-> translate_dimension(rect_layout.height) ],
          min_size |-> [ width |-> translate_dimension(rect_layout.min_width),
                         height |-> translate_dimension(rect_layout.min_height) ],
          max_size |-> [ width |-> translate_dimension(rect_layout.max_width),
                         height |-> translate_dimension(rect_layout.max_height) ],
          align_self |-> "Auto",
          flex_basis |-> DimAuto,
          aspect_ratio |-> Undefined,
          font_size_px |-> font_size_px(rect_style),
          line_height |-> get_property_owned(rect_style.line_height),
          letter_spacing |-> get_property_owned(rect_style.letter_spacing),
          word_spacing |-> get_property_owned(rect_style.word_spacing),
          tab_width |-> get_property_owned(rect_style.tab_width) ]

----------------------------------------------------------------------------
(* The DisplayRectangle: the properties of self.layout and self.style that
   get_style reads, each an Option<CssPropertyValue<T>> *)

EnumProps ==
    {"display", "box_sizing", "position", "direction", "wrap", "overflow_x",
     "align_items", "align_content", "justify_content"}

LengthProps ==
    {"left", "right", "top", "bottom",
     "margin_left", "margin_right", "margin_top", "margin_bottom",
     "padding_left", "padding_right", "padding_top", "padding_bottom",
     "border_left_width", "border_right_width", "border_top_width",
     "border_bottom_width",
     "width", "height", "min_width", "min_height", "max_width", "max_height"}

FactorProps == {"flex_grow", "flex_shrink"}

LayoutProps == EnumProps \cup LengthProps \cup FactorProps

StyleProps == {"font_size", "line_height", "letter_spacing", "word_spacing", "tab_width"}

\* the variants of the azul_css enums, as the matches of get_style list them
Variants(p) ==
    CASE p = "display" -> {"Flex", "Inline"}
      [] p = "box_sizing" -> {"ContentBox", "BorderBox"}
      [] p = "position" -> {"Static", "Relative", "Absolute"}
      [] p = "direction" -> {"Row", "RowReverse", "Column", "ColumnReverse"}
      [] p = "wrap" -> {"Wrap", "NoWrap"}
      [] p = "overflow_x" -> {"Scroll", "Auto", "Hidden", "Visible"}
      [] p = "align_items" -> {"Stretch", "Center", "Start", "End"}
      [] p = "align_content" ->
            {"Stretch", "Center", "Start", "End", "SpaceBetween", "SpaceAround"}
      [] p = "justify_content" ->
            {"Center", "Start", "End", "SpaceBetween", "SpaceAround", "SpaceEvenly"}

Metrics == {"Px", "Percent", "Pt", "Em"}

\* the numbers a caller gives to lengths and factors
LengthNumbers == {F(3, 1), F(-1, 2), Zero}

PixelValues == {PixelValue(m, v) : m \in Metrics, v \in LengthNumbers}

\* the states a property can be set to
PropertyValues(p) ==
    NonExact \cup
    (CASE p \in EnumProps -> {Exact(v) : v \in Variants(p)}
       [] p \in LengthProps \cup {"font_size", "letter_spacing", "word_spacing"} ->
            {Exact(v) : v \in PixelValues}
       [] OTHER -> {Exact(v) : v \in LengthNumbers})

\* DisplayRectangle::new: no property is set
DefaultRect ==
    [layout |-> [p \in LayoutProps |-> Absent], style |-> [p \in StyleProps |-> Absent]]

NoStyle == [tag |-> "NoStyle"]

NumSet(r) ==
    Cardinality({p \in LayoutProps : r.layout[p] # Absent})
    + Cardinality({p \in StyleProps : r.style[p] # Absent})

\* the caller writes a property of self.layout that is not set yet
SetLayoutProperty ==
    /\ NumSet(rect) < MaxSet
    /\ \E p \in LayoutProps :
        /\ rect.layout[p] = Absent
        /\ \E v \in PropertyValues(p) : rect' = [rect EXCEPT !.layout[p] = v]
    /\ style' = NoStyle
    /\ UNCHANGED uiVars

\* the caller writes a property of self.style that is not set yet
SetStyleProperty ==
    /\ NumSet(rect) < MaxSet
    /\ \E p \in StyleProps :
        /\ rect.style[p] = Absent
        /\ \E v \in PropertyValues(p) : rect' = [rect EXCEPT !.style[p] = v]
    /\ style' = NoStyle
    /\ UNCHANGED uiVars

\* the caller takes a property back (sets it to Option::None)
ClearProperty ==
    \/ \E p \in LayoutProps :
        /\ rect.layout[p] # Absent
        /\ rect' = [rect EXCEPT !.layout[p] = Absent]
        /\ style' = NoStyle
        /\ UNCHANGED uiVars
    \/ \E p \in StyleProps :
        /\ rect.style[p] # Absent
        /\ rect' = [rect EXCEPT !.style[p] = Absent]
        /\ style' = NoStyle
        /\ UNCHANGED uiVars

\* rect.get_style()
GetStyle ==
    /\ style = NoStyle
    /\ style' = get_style(rect)
    /\ UNCHANGED <<rect, uiVars>>

UiIdle ==
    /\ pc = "idle"
    /\ bounds = [origin |-> [x |-> Zero, y |-> Zero],
                 size |-> [width |-> Zero, height |-> Zero]]
    /\ node_hierarchy = <<>>
    /\ display_rects = <<>>
    /\ rect_contents = <<>>
    /\ styles = <<>>
    /\ computed = <<>>
    /\ solved_rects = <<>>
    /\ idx = 0

InitStyle ==
    /\ rect = DefaultRect
    /\ style = NoStyle
    /\ UiIdle

NextStyle == SetLayoutProperty \/ SetStyleProperty \/ ClearProperty \/ GetStyle

SpecStyle == InitStyle /\ [][NextStyle]_vars

----------------------------------------------------------------------------
(* algo::compute, after sections 4.2, 4.4 and 7 of the specification: explicit
   and percentage sizes, image and text content sizes, aspect ratio, min/max
   clamping, clamping at zero, placement of the in-flow children along the
   main axis from its start, and absolutely positioned boxes. Flexible space
   distribution, wrapping and alignment are not modelled. *)

NoParent == 0 - 1

Nodes(hierarchy) == DOMAIN hierarchy

Children(hierarchy, n) == {c \in Nodes(hierarchy) : hierarchy[c] = n}

\* the nodes of the subtree rooted at n
RECURSIVE Subtree(_, _)
Subtree(hierarchy, n) ==
    {n} \cup UNION {Subtree(hierarchy, c) : c \in Children(hierarchy, n)}

\* 4.2: Pixels is definite, Percent needs a definite reference, the rest is not
resolve(dimension, reference) ==
    CASE dimension.tag = "Pixels" -> Defined(dimension.value)
      [] dimension.tag = "Percent" ->
            IF reference.tag = "Defined"
            THEN Defined(FMul(FDiv(dimension.value, F(100, 1)), reference.value))
            ELSE Undefined
      [] OTHER -> Undefined

\* 7: an aspect ratio that is zero, negative or not finite counts as Undefined
normalize_aspect_ratio(ratio) ==
    IF ratio.tag = "Defined" /\ IsFinite(ratio.value) /\ ratio.value.n > 0
    THEN ratio ELSE Undefined

\* min/max clamping, then negative sizes clamp to 0
clamp_size(v, min, max) ==
    LET a == IF max.tag = "Defined" THEN FMin(v, max.value) ELSE v
        b == IF min.tag = "Defined" THEN FMax(a, min.value) ELSE a
    IN  FMax(b, Zero)

RECURSIVE FSum(_, _)
FSum(f, S) ==
    IF S = {} THEN Zero
    ELSE LET c == CHOOSE c \in S : TRUE IN FAdd(f[c], FSum(f, S \ {c}))

RECURSIVE FMaxOf(_, _)
FMaxOf(f, S) ==
    IF S = {} THEN Zero
    ELSE LET c == CHOOSE c \in S : TRUE IN FMax(f[c], FMaxOf(f, S \ {c}))

IsRow(st) == st.flex_direction \in {"Row", "RowReverse"}

InFlow(st) == st.position_type = "Relative" /\ st.display # "None"

\* the size of box n inside a container of size avail (two Numbers)
RECURSIVE measure(_, _, _, _, _)
measure(hierarchy, sts, contents, n, avail) ==
    LET st == sts[n]
        w == resolve(st.size.width, avail.width)
        h == resolve(st.size.height, avail.height)
        ratio == normalize_aspect_ratio(st.aspect_ratio)
        kids == {c \in Children(hierarchy, n) : InFlow(sts[c])}
        inner == [width |-> w, height |-> h]
        kw == [c \in kids |-> measure(hierarchy, sts, contents, c, inner).width]
        kh == [c \in kids |-> measure(hierarchy, sts, contents, c, inner).height]
        intrinsic ==
            IF n \in DOMAIN contents
            THEN [width |-> UsizeAsF32(contents[n].w), height |-> UsizeAsF32(contents[n].h)]
            ELSE IF IsRow(st)
            THEN [width |-> FSum(kw, kids), height |-> FMaxOf(kh, kids)]
            ELSE [width |-> FMaxOf(kw, kids), height |-> FSum(kh, kids)]
        width ==
            IF w.tag = "Defined" THEN w.value
            ELSE IF ratio.tag = "Defined" /\ h.tag = "Defined"
            THEN FMul(h.value, ratio.value)
            ELSE intrinsic.width
        height ==
            IF h.tag = "Defined" THEN h.value
            ELSE IF ratio.tag = "Defined" /\ w.tag = "Defined"
            THEN FDiv(w.value, ratio.value)
            ELSE intrinsic.height
    IN  IF st.display = "None"
        THEN [width |-> Zero, height |-> Zero]
        ELSE [width |-> clamp_size(width, resolve(st.min_size.width, avail.width),
                                   resolve(st.max_size.width, avail.width)),
              height |-> clamp_size(height, resolve(st.min_size.height, avail.height),
                                    resolve(st.max_size.height, avail.height))]

\* the final size of box n: the root is measured against the bounds, every
\* other box against the final size of its parent
RECURSIVE box_size(_, _, _, _, _)
box_size(hierarchy, sts, contents, n, size) ==
    IF hierarchy[n] = NoParent
    THEN measure(hierarchy, sts, contents, n,
                 [width |-> Defined(size.width), height |-> Defined(size.height)])
    ELSE LET p == box_size(hierarchy, sts, contents, hierarchy[n], size)
         IN  IF sts[hierarchy[n]].display = "None"
             THEN [width |-> Zero, height |-> Zero]
             ELSE measure(hierarchy, sts, contents, n,
                          [width |-> Defined(p.width), height |-> Defined(p.height)])

\* where box n starts inside its parent; sz holds the final size of every box
relative_origin(hierarchy, sts, sz, n) ==
    LET parent == hierarchy[n]
        before ==
            {c \in Children(hierarchy, parent) :
                InFlow(sts[c]) /\
                IF sts[parent].flex_direction \in {"RowReverse", "ColumnReverse"}
                THEN c > n ELSE c < n}
        bw == [c \in before |-> sz[c].width]
        bh == [c \in before |-> sz[c].height]
        left == resolve(sts[n].position.left, Defined(sz[parent].width))
        right == resolve(sts[n].position.right, Defined(sz[parent].width))
        top == resolve(sts[n].position.top, Defined(sz[parent].height))
        bottom == resolve(sts[n].position.bottom, Defined(sz[parent].height))
        neg(a) == FMul(a, F(0 - 1, 1))
    IN  IF sts[n].position_type = "Absolute"
        THEN [x |-> IF left.tag = "Defined" THEN left.value
                    ELSE IF right.tag = "Defined"
                    THEN FAdd(sz[parent].width, neg(FAdd(right.value, sz[n].width)))
                    ELSE Zero,
              y |-> IF top.tag = "Defined" THEN top.value
                    ELSE IF bottom.tag = "Defined"
                    THEN FAdd(sz[parent].height, neg(FAdd(bottom.value, sz[n].height)))
                    ELSE Zero]
        ELSE IF IsRow(sts[parent])
        THEN [x |-> FSum(bw, before), y |-> Zero]
        ELSE [x |-> Zero, y |-> FSum(bh, before)]

\* child origin = parent origin + the child's placement inside the parent
RECURSIVE box_origin(_, _, _, _)
box_origin(hierarchy, sts, sz, n) ==
    IF hierarchy[n] = NoParent
    THEN [x |-> Zero, y |-> Zero]
    ELSE LET p == box_origin(hierarchy, sts, sz, hierarchy[n])
             r == relative_origin(hierarchy, sts, sz, n)
         IN  [x |-> FAdd(p.x, r.x), y |-> FAdd(p.y, r.y)]

\* algo::compute(root, node_hierarchy, &styles, &mut rect_contents, bounds.size):
\* one PositionedRectangle for every node of the subtree of root
compute(root, hierarchy, sts, contents, size) ==
    LET sz == [n \in Nodes(hierarchy) |-> box_size(hierarchy, sts, contents, n, size)]
    IN  [n \in Subtree(hierarchy, root) |->
            [bounds |-> [origin |-> box_origin(hierarchy, sts, sz, n), size |-> sz[n]]]]

----------------------------------------------------------------------------
(* The orchestration facade: SolvedUi::new *)

\* T::get_style of the caller's node type (the trait GetStyle)
T_get_style(node) == node.style

\* NodeDataContainer::transform calls its closure once for every node of the
\* container and stores the result under the same node id
transform_ids(container) == DOMAIN container

\* rect_contents.get(&node_id)
contents_get(contents, node_id) ==
    IF node_id \in DOMAIN contents THEN Some(contents[node_id]) ELSE NoneOpt

\* the match on the content of the node
image_aspect_ratio(contents, node_id) ==
    LET c == contents_get(contents, node_id) IN
    IF c.tag = "Some" /\ c.value.tag = "Image"
    THEN Defined(FDiv(UsizeAsF32(c.value.w), UsizeAsF32(c.value.h)))
    ELSE Undefined

\* the closure with the aspect ratio of get_style kept when there is no image
node_style_keeps_aspect_ratio(node, node_id, contents) ==
    LET ratio == image_aspect_ratio(contents, node_id)
        st == T_get_style(node)
    IN  IF ratio = Undefined THEN st ELSE [st EXCEPT !.aspect_ratio = ratio]

\* the closure handed to transform
node_style(node, node_id, contents) ==
    [T_get_style(node) EXCEPT !.aspect_ratio = image_aspect_ratio(contents, node_id)]

\* display_rects.transform(|node, node_id| ...)
build_styles(rects, contents) ==
    [node_id \in transform_ids(rects) |-> node_style(rects[node_id], node_id, contents)]

\* the body of the offset loop with origin_x added to both coordinates
offset_rect_x_twice(r, origin_x, origin_y) ==
    [r EXCEPT !.bounds.origin.x = FAdd(@, origin_x),
              !.bounds.origin.y = FAdd(@, origin_x)]

\* the body of the offset loop moving the far corner as well
offset_rect_grows(r, origin_x, origin_y) ==
    [r EXCEPT !.bounds.origin.x = FAdd(@, origin_x),
              !.bounds.origin.y = FAdd(@, origin_y),
              !.bounds.size.width = FAdd(@, origin_x),
              !.bounds.size.height = FAdd(@, origin_y)]

\* the body of the offset loop
offset_rect(r, origin_x, origin_y) ==
    [r EXCEPT !.bounds.origin.x = FAdd(@, origin_x),
              !.bounds.origin.y = FAdd(@, origin_y)]

\* SolvedUi::new as a function of its arguments
SolvedUi_new(b, hierarchy, rects, contents) ==
    LET sts == build_styles(rects, contents)
        solved == compute(0, hierarchy, sts, contents, b.size)
    IN  [solved_rects |->
            [n \in DOMAIN solved |-> offset_rect(solved[n], b.origin.x, b.origin.y)]]

----------------------------------------------------------------------------
(* The arguments of a call *)

\* the rectangles the nodes of a call are drawn from
StubRects ==
    LET L(r, p, v) == [r EXCEPT !.layout[p] = v]
        px(v) == Exact(PixelValue("Px", F(v, 1)))
    IN  { DefaultRect,
          L(DefaultRect, "width", px(60)),
          L(L(L(DefaultRect, "width", Exact(PixelValue("Percent", F(50, 1)))),
              "height", px(0 - 5)), "direction", Exact("Column")),
          L(L(L(L(DefaultRect, "position", Exact("Absolute")), "left", px(3)),
              "bottom", px(2)), "height", px(50)) }

\* the nodes: DisplayRectangles, and one node type whose get_style sets an
\* aspect ratio of its own
StubNodes ==
    {[style |-> get_style(r)] : r \in StubRects}
    \cup {[style |-> [get_style(DefaultRect) EXCEPT !.aspect_ratio = Defined(F(3, 1)),
                                                    !.size.height = Pixels(F(9, 1))]]}

Image(w, h) == [tag |-> "Image", w |-> w, h |-> h]
\* a text whose measured size is w x h
Text(w, h) == [tag |-> "Text", w |-> w, h |-> h]

Contents == {Image(100, 50), Image(1, 0), Image(0, 0), Image(0, 2), Text(7, 3)}

Origins == {[x |-> Zero, y |-> Zero], [x |-> F(3, 1), y |-> F(0 - 5, 2)]}
Sizes == {[width |-> F(200, 1), height |-> F(100, 1)]}

\* the hierarchies of N nodes: node 0 is the root, a parent precedes its children
Hierarchies(N) ==
    {h \in [0 .. N - 1 -> {NoParent} \cup (0 .. N - 1)] :
        /\ h[0] = NoParent
        /\ \A n \in 1 .. N - 1 : h[n] # NoParent /\ h[n] < n}

----------------------------------------------------------------------------
(* One call of SolvedUi::new *)

\* the caller's arguments
Call ==
    /\ pc = "idle"
    /\ \E N \in 1 .. MaxNodes :
        /\ node_hierarchy' \in Hierarchies(N)
        /\ display_rects' \in [0 .. N - 1 -> StubNodes]
        /\ \E S \in SUBSET (0 .. N - 1) : rect_contents' \in [S -> Contents]
    /\ \E o \in Origins, s \in Sizes : bounds' = [origin |-> o, size |-> s]
    /\ pc' = "transform"
    /\ UNCHANGED <<styles, computed, solved_rects, idx, styleVars>>

\* let styles = display_rects.transform(...)
TransformStyles ==
    /\ pc = "transform"
    /\ styles' = build_styles(display_rects, rect_contents)
    /\ pc' = "compute"
    /\ UNCHANGED <<bounds, node_hierarchy, display_rects, rect_contents,
                   computed, solved_rects, idx, styleVars>>

\* let mut solved_rects = algo::compute(...); the iterator of the loop is created
Compute ==
    /\ pc = "compute"
    /\ solved_rects' = compute(0, node_hierarchy, styles, rect_contents, bounds.size)
    /\ computed' = solved_rects'
    /\ idx' = 0
    /\ pc' = "offset"
    /\ UNCHANGED <<bounds, node_hierarchy, display_rects, rect_contents,
                   styles, styleVars>>

\* the loop ends one rectangle early
iter_done_early(i, rects) == i + 1 \notin DOMAIN rects

\* solved_rects.internal.iter_mut() has no next rectangle
iter_done(i, rects) == i \notin DOMAIN rects

\* one iteration of the offset loop
OffsetRect ==
    /\ pc = "offset"
    /\ ~iter_done(idx, solved_rects)
    /\ solved_rects' = [solved_rects EXCEPT
                            ![idx] = offset_rect(@, bounds.origin.x, bounds.origin.y)]
    /\ idx' = idx + 1
    /\ UNCHANGED <<pc, bounds, node_hierarchy, display_rects, rect_contents,
                   styles, computed, styleVars>>

\* SolvedUi { solved_rects }
Return ==
    /\ pc = "offset"
    /\ iter_done(idx, solved_rects)
    /\ pc' = "done"
    /\ UNCHANGED <<bounds, node_hierarchy, display_rects, rect_contents,
                   styles, computed, solved_rects, idx, styleVars>>

Init ==
    /\ UiIdle
    /\ rect = DefaultRect
    /\ style = NoStyle

Next == Call \/ TransformStyles \/ Compute \/ OffsetRect \/ Return

Spec == Init /\ [][Next]_vars

----------------------------------------------------------------------------
(* Properties of the style adapter, checked under SpecStyle *)

\* the field of a Style that a length property of the rectangle is written to
StyleLength(st, p) ==
    CASE p = "left" -> st.position.left
      [] p = "right" -> st.position.right
      [] p = "top" -> st.position.top
      [] p = "bottom" -> st.position.bottom
      [] p = "margin_left" -> st.margin.left
      [] p = "margin_right" -> st.margin.right
      [] p = "margin_top" -> st.margin.top
      [] p = "margin_bottom" -> st.margin.bottom
      [] p = "padding_left" -> st.padding.left
      [] p = "padding_right" -> st.padding.right
      [] p = "padding_top" -> st.padding.top
      [] p = "padding_bottom" -> st.padding.bottom
      [] p = "border_left_width" -> st.border.left
      [] p = "border_right_width" -> st.border.right
      [] p = "border_top_width" -> st.border.top
      [] p = "border_bottom_width" -> st.border.bottom
      [] p = "width" -> st.size.width
      [] p = "height" -> st.size.height
      [] p = "min_width" -> st.min_size.width
      [] p = "min_height" -> st.min_size.height
      [] p = "max_width" -> st.max_size.width
      [] p = "max_height" -> st.max_size.height

\* the field of a Style that an enum property of the rectangle is written to
StyleEnum(st, p) ==
    CASE p = "display" -> st.display
      [] p = "box_sizing" -> st.box_sizing
      [] p = "position" -> st.position_type
      [] p = "direction" -> st.flex_direction
      [] p = "wrap" -> st.flex_wrap
      [] p = "overflow_x" -> st.overflow
      [] p = "align_items" -> st.align_items
      [] p = "align_content" -> st.align_content
      [] p = "justify_content" -> st.justify_content

\* the values of the enums of crate::style that get_style produces
StyleVariants(p) ==
    CASE p = "display" -> {"Flex", "None", "Inline"}
      [] p = "box_sizing" -> {"ContentBox", "BorderBox"}
      [] p = "position" -> {"Relative", "Absolute"}
      [] p = "direction" -> {"Row", "RowReverse", "Column", "ColumnReverse"}
      [] p = "wrap" -> {"Wrap", "NoWrap"}
      [] p = "overflow_x" -> {"Scroll", "Hidden", "Visible"}
      [] p = "align_items" -> {"Stretch", "Center", "FlexStart", "FlexEnd"}
      [] p = "align_content" ->
            {"Stretch", "Center", "FlexStart", "FlexEnd", "SpaceBetween", "SpaceAround"}
      [] p = "justify_content" ->
            {"Center", "FlexStart", "FlexEnd", "SpaceBetween", "SpaceAround", "SpaceEvenly"}

\* the value each enum field takes when its property is not set
UnsetDefault(p) ==
    CASE p = "display" -> "Flex"
      [] p = "box_sizing" -> "ContentBox"
      [] p = "position" -> "Relative"
      [] p = "direction" -> "Row"
      [] p = "wrap" -> "Wrap"
      [] p = "overflow_x" -> "Scroll"
      [] p = "align_items" -> "FlexStart"
      [] p = "align_content" -> "Stretch"
      [] p = "justify_content" -> "FlexStart"

IsDimension(d) ==
    \/ d \in {DimUndefined, DimAuto}
    \/ d.tag \in {"Pixels", "Percent"} /\ IsFinite(d.value)

\* get_style returned a complete Style: every field holds a value of its type
IsStyle(st) ==
    /\ DOMAIN st = {"display", "box_sizing", "position_type", "direction",
                    "flex_direction", "flex_wrap", "overflow", "align_items",
                    "align_content", "justify_content", "position", "margin",
                    "padding", "border", "flex_grow", "flex_shrink", "size",
                    "min_size", "max_size", "align_self", "flex_basis",
                    "aspect_ratio", "font_size_px", "line_height",
                    "letter_spacing", "word_spacing", "tab_width"}
    /\ \A p \in EnumProps : StyleEnum(st, p) \in StyleVariants(p)
    /\ \A p \in LengthProps : IsDimension(StyleLength(st, p))
    /\ st.direction \in {"LTR", "RTL"}
    /\ st.align_self \in {"Auto", "FlexStart", "FlexEnd", "Center", "Baseline", "Stretch"}
    /\ IsDimension(st.flex_basis)
    /\ st.aspect_ratio.tag \in {"Undefined", "Defined"}
    /\ st.flex_grow.k \in {"fin", "default"}
    /\ st.flex_shrink.k \in {"fin", "default"}
    /\ st.font_size_px.metric \in Metrics \cup {"Default"}
    /\ \A f \in {st.line_height, st.letter_spacing, st.word_spacing, st.tab_width} :
            f.tag \in {"None", "Some"}

C6_UnitConversion ==
    style # NoStyle =>
        \A p \in LengthProps :
            rect.layout[p].tag = "Exact" =>
                LET v == rect.layout[p].value.number
                    m == rect.layout[p].value.metric
                    out == StyleLength(style, p)
                IN  /\ m = "Px" => out = Pixels(v)
                    /\ m = "Pt" => out = Pixels(FDiv(FMul(v, F(96, 1)), F(72, 1)))
                    /\ m = "Em" => out = Pixels(FMul(v, EM_HEIGHT))
                    /\ m = "Percent" => out = Percent(v)

C6_Witness ==
    /\ style # NoStyle
    /\ rect.layout.margin_left = Exact(PixelValue("Pt", F(3, 1)))
    /\ style.margin.left = Pixels(F(4, 1))

\* C8: position_type is Absolute exactly when the position property is the
\* exact value Absolute; static, relative and every unset or non-exact state
\* give Relative.
C8_PositionTypeMapping ==
    style # NoStyle =>
        /\ style.position_type = "Absolute" <=> rect.layout.position = Exact("Absolute")
        /\ rect.layout.position # Exact("Absolute") => style.position_type = "Relative"

C8_Witness ==
    /\ style # NoStyle
    /\ rect.layout.position = Exact("Static")
    /\ style.position_type = "Relative"

\* C9: whatever the properties of the rectangle, get_style returns
\* align_self = Auto, flex_basis = Auto, direction = LTR and
\* aspect_ratio = Undefined.
C9_InputIndependentFields ==
    style # NoStyle =>
        /\ style.align_self = "Auto"
        /\ style.flex_basis = DimAuto
        /\ style.direction = "LTR"
        /\ style.aspect_ratio = Undefined

C9_Witness ==
    /\ style # NoStyle
    /\ rect.layout.direction = Exact("RowReverse")
    /\ style.flex_direction = "RowReverse"
    /\ style.direction = "LTR"

\* C10: a length property that is absent, initial or inherit becomes
\* Dimension::Undefined, auto becomes Dimension::Auto, and the CSS value none
\* becomes Pixels(0.0), the only non-exact state with a definite length.
C10_NonExactLengths ==
    style # NoStyle =>
        \A p \in LengthProps :
            LET in == rect.layout[p]
                out == StyleLength(style, p)
            IN  /\ in \in {Absent, CssInitial, CssInherit} => out = DimUndefined
                /\ in = CssAuto => out = DimAuto
                /\ in = CssNone => out = Pixels(Zero)
                /\ in.tag # "Exact" /\ out.tag \in {"Pixels", "Percent"} => in = CssNone

C10_Witness ==
    /\ style # NoStyle
    /\ rect.layout.max_width = CssNone
    /\ style.max_size.width = Pixels(Zero)

----------------------------------------------------------------------------
(* Properties of SolvedUi::new, checked under Spec *)

Shifted(o, dx, dy) == [x |-> FAdd(o.x, dx), y |-> FAdd(o.y, dy)]

\* what the same call returns when the origin of the bounds is (0, 0)
AtZeroOrigin ==
    SolvedUi_new([bounds EXCEPT !.origin = [x |-> Zero, y |-> Zero]],
                 node_hierarchy, display_rects, rect_contents).solved_rects

\* C1: the rectangle returned for every box is the rectangle the same call
\* returns with the origin (0, 0), moved by the origin of the bounds; what
\* algo::compute returned does not depend on the origin; and while the offset
\* loop runs, every box it has passed is moved exactly once from what
\* algo::compute returned and every other box is not moved yet.
C1_TranslationInvariance ==
    /\ pc = "done" =>
          LET zero == AtZeroOrigin IN
          /\ DOMAIN solved_rects = DOMAIN zero
          /\ \A n \in DOMAIN solved_rects :
                /\ solved_rects[n].bounds.origin =
                      Shifted(zero[n].bounds.origin, bounds.origin.x, bounds.origin.y)
                /\ solved_rects[n].bounds.size = zero[n].bounds.size
          /\ computed = zero
    /\ pc = "offset" =>
          \A n \in DOMAIN solved_rects :
              solved_rects[n].bounds.origin =
                  IF n < idx
                  THEN Shifted(computed[n].bounds.origin, bounds.origin.x, bounds.origin.y)
                  ELSE computed[n].bounds.origin

C1_Witness ==
    /\ pc = "done"
    /\ bounds.origin = [x |-> F(3, 1), y |-> F(0 - 5, 2)]
    /\ 1 \in DOMAIN solved_rects
    /\ computed[1].bounds.origin = [x |-> F(3, 1), y |-> F(0 - 22, 1)]
    /\ solved_rects[1].bounds.origin = [x |-> F(6, 1), y |-> F(0 - 49, 2)]

HasStyles == pc \in {"compute", "offset", "done"}

\* C3 as stated: an image whose width or height is 0 gets the aspect ratio
\* Undefined in the Style of its box.
C3_DegenerateRatioIsUndefined ==
    HasStyles =>
        \A n \in DOMAIN styles :
            (/\ n \in DOMAIN rect_contents
             /\ rect_contents[n].tag = "Image"
             /\ (rect_contents[n].w = 0 \/ rect_contents[n].h = 0))
            => styles[n].aspect_ratio = Undefined

C3_Witness ==
    /\ HasStyles
    /\ 0 \in DOMAIN rect_contents
    /\ rect_contents[0] = Image(0, 0)
    /\ styles[0].aspect_ratio = Defined(NaN)

\* C4: the Style handed to the algorithm has aspect_ratio = Defined(w / h)
\* for a box whose content is Image(w, h), and Undefined for a box with text
\* or without content, whatever aspect ratio get_style returned.
C4_ImageAspectRatio ==
    HasStyles =>
        \A n \in DOMAIN styles :
            IF n \in DOMAIN rect_contents /\ rect_contents[n].tag = "Image"
            THEN styles[n].aspect_ratio =
                    Defined(FDiv(F(rect_contents[n].w, 1), F(rect_contents[n].h, 1)))
            ELSE styles[n].aspect_ratio = Undefined

C4_Witness ==
    /\ HasStyles
    /\ DOMAIN styles = {0, 1}
    /\ rect_contents = (0 :> Image(100, 50)) @@ (1 :> Text(7, 3))
    /\ styles[0].aspect_ratio = Defined(F(2, 1))
    /\ display_rects[1].style.aspect_ratio = Defined(F(3, 1))
    /\ styles[1].aspect_ratio = Undefined

\* C7: styles holds one Style for every node of display_rects, under the same
\* node id (every field but aspect_ratio is the one get_style gave for that
\* node, and aspect_ratio follows the content stored under that id); the
\* returned table holds one rectangle for every node of the subtree of node 0,
\* each moved by the origin of the bounds.
C7_TablesAligned ==
    /\ HasStyles =>
          /\ DOMAIN styles = DOMAIN display_rects
          /\ \A n \in DOMAIN styles :
                /\ [styles[n] EXCEPT !.aspect_ratio = Undefined] =
                      [display_rects[n].style EXCEPT !.aspect_ratio = Undefined]
                /\ styles[n].aspect_ratio # Undefined =>
                      n \in DOMAIN rect_contents /\ rect_contents[n].tag = "Image"
                /\ (n \in DOMAIN rect_contents /\ rect_contents[n].tag = "Image") =>
                      styles[n].aspect_ratio # Undefined
    /\ pc = "done" =>
          /\ DOMAIN solved_rects = Subtree(node_hierarchy, 0)
          /\ \A n \in DOMAIN solved_rects :
                solved_rects[n].bounds.origin =
                    Shifted(computed[n].bounds.origin, bounds.origin.x, bounds.origin.y)

C7_Witness ==
    /\ pc = "done"
    /\ DOMAIN solved_rects = {0, 1}
    /\ display_rects[0] # display_rects[1]
    /\ DOMAIN rect_contents = {1}
    /\ rect_contents[1].tag = "Image"
    /\ bounds.origin.x = F(3, 1)
    /\ solved_rects[1].bounds.origin.x # computed[1].bounds.origin.x

============================================================================
